---- MODULE Spec2Model ----
(***************************************************************************)
(* Model of the Home component of src/app/page.tsx (screen-time            *)
(* leaderboard): the React state of the component, the hosted auth         *)
(* service and document store it talks to, and every async handler of the  *)
(* component cut at its await points.                                      *)
(*                                                                         *)
(* The file holds two copies of the component (lines 95-449 and 543-876)   *)
(* whose handlers are identical statement for statement; the line numbers  *)
(* quoted below are those of the first copy.                               *)
(***************************************************************************)
EXTENDS Integers, Sequences, FiniteSets, TLC

(* ---------------------------------------------------------------- bounds *)
MaxMinutes == 1        \* minutes typed into the input range over 0..MaxMinutes
MaxRecords == 2        \* successful addDoc calls per behaviour
MaxWeek == 2           \* the wall clock runs over weeks 1..MaxWeek
MaxListeners == 2      \* onSnapshot registrations per behaviour
MaxQueue == 1          \* auth notifications waiting for the listener
MaxInFlight == 2       \* async calls of the component in flight at once

(* ------------------------------------------------------------- universes *)
None == "none"
Users == {"u1", "u2"}                 \* uids of the auth service
NameSet == {"a", "b"}                 \* non-empty names; "" is empty/undefined
Minutes == 0 .. MaxMinutes
Anonymous == "Anonymous"

EmailOf(u) == IF u = "u1" THEN "u1@x" ELSE "u2@x"

\* JavaScript's a || b on strings: "" and undefined are falsy.
Or(a, b) == IF a # "" THEN a ELSE b

NullUser == [present |-> FALSE, uid |-> None, name |-> "", displayName |-> ""]
NoDoc == [exists |-> FALSE, name |-> "", email |-> ""]
IdleSubmit == [pc |-> "idle", uid |-> None, uname |-> "", udisp |-> "",
               minutes |-> 0, dname |-> "", ts |-> 0, raced |-> FALSE,
               readRace |-> FALSE]
IdleReg == [pc |-> "idle", uid |-> None, name |-> ""]
IdleLogin == [pc |-> "idle", uid |-> None]
IdleSettings == [pc |-> "idle", uid |-> None, newName |-> ""]

\* A screenTime document written before userId was stored on records, and one
\* u1 submitted under an earlier name.
LegacyDoc == [userId |-> "", name |-> "", email |-> "old@x", screenTime |-> 0,
              timestamp |-> 0]
EarlierDoc == [userId |-> "u1", name |-> "b", email |-> EmailOf("u1"),
               screenTime |-> 1, timestamp |-> 0]

InitialDocs == <<LegacyDoc, EarlierDoc>>

\* The accounts registered before this session.
InitialAccounts == {"u1"}

VARIABLES
  accounts,       \* auth service: uids that have an account
  displayName,    \* auth service: displayName of each account
  currentUser,    \* auth.currentUser (None when signed out)
  authQueue,      \* auth state changes not yet delivered to onAuthStateChanged
  usersCol,       \* store: users/{uid}
  screenTimeCol,  \* store: the screenTime collection; the document id is the index
  now,            \* the week new Date() falls in
  mounted,        \* the effect has run and its cleanup has not
  user,           \* useState user
  screenTime,     \* useState screenTime (the minutes input)
  error,          \* useState error
  leaderboard,    \* useState leaderboard
  leaderboardUnsubscribe,  \* the effect's let: 0 is () => {}, else a listener id
  listeners,      \* store: registered onSnapshot listeners
  nListeners,     \* listeners registered so far
  pendingSnap,    \* listeners owed a snapshot
  authTasks,      \* sign-in handlers awaiting getDoc, per uid
  snapTasks,      \* onSnapshot callbacks awaiting a getDoc
  reg,            \* handleRegister in flight
  login,          \* handleLogin in flight
  submits,        \* submitScreenTime calls in flight
  settings,       \* handleUpdateSettings in flight
  lastNotified,   \* history: the argument of the last onAuthStateChanged call
  acks,           \* history: the successful submissions, in completion order
  lastSubmit,     \* history: how the last settled submitScreenTime call ended
  staleRead       \* store: per uid, the users/{uid} name a pending sign-in
                  \* handler's getDoc was served before a later write (None: not so)

vars == <<accounts, displayName, currentUser, authQueue, usersCol, screenTimeCol,
          now, mounted, user, screenTime, error, leaderboard,
          leaderboardUnsubscribe, listeners, nListeners, pendingSnap, authTasks,
          snapTasks, reg, login, submits, settings, lastNotified, acks,
          lastSubmit, staleRead>>

authVars == <<accounts, displayName, currentUser, authQueue>>
storeVars == <<usersCol, screenTimeCol>>
boardVars == <<leaderboardUnsubscribe, listeners, nListeners, pendingSnap>>
taskVars == <<authTasks, snapTasks, reg, login, submits, settings>>

(* ------------------------------------------------------------------ Init *)
\* u1 registered earlier (account, displayName and profile "a"); u2 has no
\* account; the collection holds two documents of an earlier week.  Nobody
\* is signed in; onAuthStateChanged owes its initial call.
Init ==
  /\ accounts = InitialAccounts
  /\ displayName = [u \in Users |-> IF u \in InitialAccounts THEN "a" ELSE ""]
  /\ currentUser = None
  /\ authQueue = <<None>>
  /\ usersCol = [u \in Users |->
                   IF u \in InitialAccounts
                     THEN [exists |-> TRUE, name |-> "a", email |-> EmailOf(u)]
                   ELSE NoDoc]
  /\ screenTimeCol = InitialDocs
  /\ now = 1
  /\ mounted = TRUE
  /\ user = NullUser
  /\ screenTime = 0
  /\ error = ""
  /\ leaderboard = <<>>
  /\ leaderboardUnsubscribe = 0
  /\ listeners = {}
  /\ nListeners = 0
  /\ pendingSnap = {}
  /\ authTasks = [u \in Users |-> 0]
  /\ snapTasks = <<>>
  /\ reg = IdleReg
  /\ login = IdleLogin
  /\ submits = [s \in 1 .. MaxInFlight |-> IdleSubmit]
  /\ settings = IdleSettings
  /\ lastNotified = None
  /\ acks = <<>>
  /\ lastSubmit = "none"
  /\ staleRead = [u \in Users |-> None]

(* --------------------------------------------------------------- helpers *)
\* A React state setter: ignored once the component has unmounted.
SetState(cur, new) == IF mounted THEN new ELSE cur

\* The auth service tells the registered onAuthStateChanged listener.
Enqueue(ev) == IF mounted THEN Append(authQueue, ev) ELSE authQueue
QueueRoom == Len(authQueue) < MaxQueue

Busy == {s \in 1 .. MaxInFlight : submits[s].pc # "idle"}

RECURSIVE SumOver(_, _)
SumOver(f, S) ==
  IF S = {} THEN 0
  ELSE LET x == CHOOSE y \in S : TRUE IN f[x] + SumOver(f, S \ {x})

\* The async calls of the component that have not settled yet.
InFlightCount ==
  Cardinality(Busy) + SumOver(authTasks, Users) + Len(snapTasks)
  + (IF reg.pc = "idle" THEN 0 ELSE 1)
  + (IF login.pc = "idle" THEN 0 ELSE 1)
  + (IF settings.pc = "idle" THEN 0 ELSE 1)

Room == InFlightCount < MaxInFlight

\* No handler of the auth flows is in flight and no notification is waiting.
AuthQuiescent ==
  /\ reg.pc = "idle"
  /\ login.pc = "idle"
  /\ authQueue = <<>>
  /\ \A u \in Users : authTasks[u] = 0

(* ------------------------------------------ onAuthStateChanged (111-187) *)
\* The listener is called with the next auth state.  Signed in: the async
\* callback runs to its first await (getDoc of users/{uid}).  Signed out:
\* setUser(null); setLeaderboard([]).
AuthNotify ==
  /\ mounted
  /\ authQueue # <<>>
  /\ LET ev == Head(authQueue) IN
       /\ authQueue' = Tail(authQueue)
       /\ lastNotified' = ev
       /\ IF ev # None
            THEN /\ Room
                 /\ authTasks' = [authTasks EXCEPT ![ev] = @ + 1]
                 /\ UNCHANGED <<user, leaderboard>>
            ELSE /\ user' = NullUser
                 /\ leaderboard' = <<>>
                 /\ UNCHANGED authTasks
  /\ UNCHANGED <<accounts, displayName, currentUser, storeVars, now, mounted,
                 screenTime, error, boardVars, snapTasks, reg, login, submits,
                 settings, acks, lastSubmit>>
  /\ UNCHANGED staleRead

\* Variant: the fallback chain has no auth display name in it.
AuthUserNameNoDisplay(profileName, authDisplayName) ==
  Or(profileName, Anonymous)

\* The name setUser is given at line 120.
AuthUserName(profileName, authDisplayName) ==
  Or(profileName, Or(authDisplayName, Anonymous))

\* What the getDoc of line 115 gives the handler of u: the name in the
\* document as it was when the read was served.
ProfileRead(u) == IF staleRead[u] # None THEN staleRead[u] ELSE usersCol[u].name

\* A write to users/{uid} lands.  A sign-in handler of uid that is awaiting
\* its getDoc may have been served already, with the document as it was.
ServedBefore(uid, served) ==
  IF served /\ authTasks[uid] > 0 /\ staleRead[uid] = None
    THEN [staleRead EXCEPT ![uid] = usersCol[uid].name]
    ELSE staleRead

\* The getDoc of line 115 settles.  Resolved: setUser with the name fallback
\* of line 120, then onSnapshot registers a listener and its unsubscribe
\* function overwrites leaderboardUnsubscribe (line 129).  Rejected: the
\* catch of line 180 logs and nothing else happens.
AuthHandlerRead(u, ok) ==
  /\ authTasks[u] > 0
  /\ authTasks' = [authTasks EXCEPT ![u] = @ - 1]
  /\ IF ok
       THEN /\ nListeners < MaxListeners
            /\ user' = SetState(user,
                 [present |-> TRUE, uid |-> u,
                  name |-> AuthUserName(ProfileRead(u), displayName[u]),
                  displayName |-> displayName[u]])
            /\ nListeners' = nListeners + 1
            /\ listeners' = listeners \cup {nListeners + 1}
            /\ pendingSnap' = pendingSnap \cup {nListeners + 1}
            /\ leaderboardUnsubscribe' = nListeners + 1
       ELSE UNCHANGED <<user, boardVars>>
  /\ staleRead' = [staleRead EXCEPT ![u] = None]
  /\ UNCHANGED <<authVars, storeVars, now, mounted, screenTime, error,
                 leaderboard, snapTasks, reg, login, submits, settings,
                 lastNotified, acks, lastSubmit>>

\* The effect's cleanup (189-192): unsubscribe(); leaderboardUnsubscribe().
Unmount ==
  /\ mounted
  /\ mounted' = FALSE
  /\ authQueue' = <<>>
  /\ listeners' = listeners \ {leaderboardUnsubscribe}
  /\ pendingSnap' = pendingSnap \ {leaderboardUnsubscribe}
  /\ UNCHANGED <<accounts, displayName, currentUser, storeVars, now, user,
                 screenTime, error, leaderboard, leaderboardUnsubscribe,
                 nListeners, taskVars, lastNotified, acks, lastSubmit>>
  /\ UNCHANGED staleRead

(* ------------------------------------------------ handleSignOut (245-247) *)
\* auth.signOut(); the button is rendered only in the signed-in view.
SignOut ==
  /\ mounted
  /\ user.present
  /\ currentUser # None
  /\ QueueRoom
  /\ currentUser' = None
  /\ authQueue' = Enqueue(None)
  /\ UNCHANGED <<accounts, displayName, storeVars, now, mounted, user,
                 screenTime, error, leaderboard, boardVars, taskVars,
                 lastNotified, acks, lastSubmit>>
  /\ UNCHANGED staleRead

(* ----------------------------------------------- handleRegister (195-230) *)
\* setError(""), then createUserWithEmailAndPassword is awaited.  The form is
\* rendered only while user is null (line 306).
RegisterStart(u, n) ==
  /\ mounted
  /\ ~user.present
  /\ reg.pc = "idle"
  /\ Room
  /\ reg' = [pc |-> "create", uid |-> u, name |-> n]
  /\ error' = ""
  /\ UNCHANGED <<authVars, storeVars, now, mounted, user, screenTime,
                 leaderboard, boardVars, authTasks, snapTasks, login, submits,
                 settings, lastNotified, acks, lastSubmit>>
  /\ UNCHANGED staleRead

\* createUserWithEmailAndPassword settles (200-204).  On success the new
\* account is signed in, which the auth listener is told.
RegisterCreate(ok) ==
  /\ reg.pc = "create"
  /\ IF ok
       THEN /\ reg.uid \notin accounts
            /\ QueueRoom
            /\ accounts' = accounts \cup {reg.uid}
            /\ currentUser' = reg.uid
            /\ authQueue' = Enqueue(reg.uid)
            /\ reg' = [reg EXCEPT !.pc = "profile"]
            /\ UNCHANGED error
       ELSE /\ error' = SetState(error, "register")
            /\ reg' = IdleReg
            /\ UNCHANGED <<accounts, currentUser, authQueue>>
  /\ UNCHANGED <<displayName, storeVars, now, mounted, user, screenTime,
                 leaderboard, boardVars, authTasks, snapTasks, login, submits,
                 settings, lastNotified, acks, lastSubmit>>
  /\ UNCHANGED staleRead

\* updateProfile(userCredential.user, {displayName: name}) settles (207-209).
RegisterProfile(ok) ==
  /\ reg.pc = "profile"
  /\ IF ok
       THEN /\ displayName' = [displayName EXCEPT ![reg.uid] = reg.name]
            /\ reg' = [reg EXCEPT !.pc = "setDoc"]
            /\ UNCHANGED error
       ELSE /\ error' = SetState(error, "register")
            /\ reg' = IdleReg
            /\ UNCHANGED displayName
  /\ UNCHANGED <<accounts, currentUser, authQueue, storeVars, now, mounted,
                 user, screenTime, leaderboard, boardVars, authTasks, snapTasks,
                 login, submits, settings, lastNotified, acks, lastSubmit>>
  /\ UNCHANGED staleRead

\* setDoc(users/{uid}, {name, email, createdAt}) settles (212-216); on success
\* setUser({...userCredential.user, name}) (219-222).
RegisterSetDoc(ok) ==
  /\ reg.pc = "setDoc"
  /\ reg' = IdleReg
  /\ IF ok
       THEN /\ usersCol' = [usersCol EXCEPT ![reg.uid] =
                 [exists |-> TRUE, name |-> reg.name, email |-> EmailOf(reg.uid)]]
            /\ user' = SetState(user,
                 [present |-> TRUE, uid |-> reg.uid, name |-> reg.name,
                  displayName |-> displayName[reg.uid]])
            /\ \E served \in BOOLEAN : staleRead' = ServedBefore(reg.uid, served)
            /\ UNCHANGED error
       ELSE /\ error' = SetState(error, "register")
            /\ UNCHANGED <<usersCol, user, staleRead>>
  /\ UNCHANGED <<authVars, screenTimeCol, now, mounted, screenTime,
                 leaderboard, boardVars, authTasks, snapTasks, login, submits,
                 settings, lastNotified, acks, lastSubmit>>

(* -------------------------------------------------- handleLogin (232-243) *)
LoginStart(u) ==
  /\ mounted
  /\ ~user.present
  /\ login.pc = "idle"
  /\ Room
  /\ login' = [pc |-> "signIn", uid |-> u]
  /\ error' = ""
  /\ UNCHANGED <<authVars, storeVars, now, mounted, user, screenTime,
                 leaderboard, boardVars, authTasks, snapTasks, reg, submits,
                 settings, lastNotified, acks, lastSubmit>>
  /\ UNCHANGED staleRead

\* signInWithEmailAndPassword settles (237).  The listener is told only of a
\* change of the signed-in user.
LoginDone(ok) ==
  /\ login.pc = "signIn"
  /\ login' = IdleLogin
  /\ IF ok
       THEN /\ login.uid \in accounts
            /\ currentUser' = login.uid
            /\ IF currentUser # login.uid
                 THEN QueueRoom /\ authQueue' = Enqueue(login.uid)
                 ELSE UNCHANGED authQueue
            /\ UNCHANGED error
       ELSE /\ error' = SetState(error, "login")
            /\ UNCHANGED <<currentUser, authQueue>>
  /\ UNCHANGED <<accounts, displayName, storeVars, now, mounted, user,
                 screenTime, leaderboard, boardVars, authTasks, snapTasks, reg,
                 submits, settings, lastNotified, acks, lastSubmit>>
  /\ UNCHANGED staleRead

(* --------------------------------------------- submitScreenTime (249-271) *)
FreeSlot == CHOOSE s \in 1 .. MaxInFlight :
              /\ submits[s].pc = "idle"
              /\ \A r \in 1 .. MaxInFlight : submits[r].pc = "idle" => s <= r

\* The name fallback chain of line 258.
SubmitName(profileName, uname, udisp) ==
  Or(profileName, Or(uname, Or(udisp, Anonymous)))

\* The document addDoc is given (256-262).
ScreenTimeData(t) ==
  [userId |-> t.uid, name |-> t.dname, email |-> EmailOf(t.uid),
   screenTime |-> t.minutes, timestamp |-> t.ts]

\* Variant: the write adds the minutes to the user's document of the week.
AddDocAccumulate(col, data) ==
  LET same == {i \in DOMAIN col : /\ col[i].userId = data.userId
                                  /\ col[i].timestamp = data.timestamp}
  IN IF same = {} THEN Append(col, data)
     ELSE LET i == CHOOSE x \in same : TRUE
          IN [col EXCEPT ![i].screenTime = @ + data.screenTime]

\* Variant: the write is a setDoc on a document keyed by user and week.
AddDocKeyed(col, data) ==
  LET same == {i \in DOMAIN col : /\ col[i].userId = data.userId
                                  /\ col[i].timestamp = data.timestamp}
  IN IF same = {} THEN Append(col, data)
     ELSE LET i == CHOOSE x \in same : TRUE IN [col EXCEPT ![i] = data]

\* addDoc(collection(db, "screenTime"), data): a new document every call.
AddDoc(col, data) == Append(col, data)

\* if (!user) return;  (line 250)
SubmitNoUser ==
  /\ mounted
  /\ ~user.present
  /\ UNCHANGED vars

\* The call runs to its first await: the closure's user and screenTime are
\* those of the render the click happened in, and getDoc(users/{uid}) is
\* issued (253).
SubmitStart ==
  /\ mounted
  /\ user.present
  /\ Room
  /\ Len(acks) + Cardinality(Busy) < MaxRecords
  /\ LET same == {r \in Busy : submits[r].uid = user.uid} IN
       submits' = [r \in 1 .. MaxInFlight |->
          IF r = FreeSlot
            THEN [pc |-> "read", uid |-> user.uid, uname |-> user.name,
                  udisp |-> user.displayName, minutes |-> screenTime,
                  dname |-> "", ts |-> 0, raced |-> same # {},
                  readRace |-> FALSE]
            ELSE IF r \in same THEN [submits[r] EXCEPT !.raced = TRUE]
            ELSE submits[r]]
  /\ UNCHANGED <<authVars, storeVars, now, mounted, user, screenTime, error,
                 leaderboard, boardVars, authTasks, snapTasks, reg, login,
                 settings, lastNotified, acks, lastSubmit>>
  /\ UNCHANGED staleRead

\* The getDoc of line 253 settles.  Resolved: screenTimeData is built (name
\* fallback, timestamp new Date()) and addDoc is issued.  Rejected, or thrown
\* by doc() for a user object without uid: the catch of 268 logs.
SubmitRead(s, ok) ==
  /\ submits[s].pc = "read"
  /\ IF ok
       THEN /\ submits[s].uid # None
            /\ LET same == {r \in Busy \ {s} :
                               /\ submits[r].pc = "write"
                               /\ submits[r].uid = submits[s].uid}
               IN submits' = [r \in 1 .. MaxInFlight |->
                    IF r = s
                      THEN [submits[s] EXCEPT
                              !.pc = "write",
                              !.dname = SubmitName(usersCol[submits[s].uid].name,
                                                   submits[s].uname,
                                                   submits[s].udisp),
                              !.ts = now,
                              !.readRace = same # {}]
                    ELSE IF r \in same
                      THEN [submits[r] EXCEPT !.readRace = TRUE]
                    ELSE submits[r]]
       ELSE submits' = [submits EXCEPT ![s] = IdleSubmit]
  /\ lastSubmit' = IF ok THEN lastSubmit ELSE "readFailed"
  /\ UNCHANGED <<authVars, storeVars, now, mounted, user, screenTime, error,
                 leaderboard, boardVars, authTasks, snapTasks, reg, login,
                 settings, lastNotified, acks>>
  /\ UNCHANGED staleRead

\* Variant: setScreenTime(0) sits in a finally block.
SubmitWriteFinally(s, ok) ==
  /\ submits[s].pc = "write"
  /\ submits' = [submits EXCEPT ![s] = IdleSubmit]
  /\ screenTime' = SetState(screenTime, 0)
  /\ IF ok
       THEN /\ screenTimeCol' = AddDoc(screenTimeCol, ScreenTimeData(submits[s]))
            /\ pendingSnap' = listeners
            /\ acks' = Append(acks, [uid |-> submits[s].uid,
                                     minutes |-> submits[s].minutes,
                                     week |-> submits[s].ts,
                                     raced |-> submits[s].raced,
                                     readRace |-> submits[s].readRace])
       ELSE UNCHANGED <<screenTimeCol, pendingSnap, acks>>
  /\ lastSubmit' = IF ok THEN "ok" ELSE "writeFailed"
  /\ UNCHANGED <<authVars, usersCol, now, mounted, user, error, leaderboard,
                 leaderboardUnsubscribe, listeners, nListeners, authTasks,
                 snapTasks, reg, login, settings, lastNotified>>
  /\ UNCHANGED staleRead

\* Variant: the write puts back the user's document as this call last saw
\* it, so a write that raced with another one of the user replaces it.
SubmitWriteLastWins(s, ok) ==
  /\ submits[s].pc = "write"
  /\ submits' = [submits EXCEPT ![s] = IdleSubmit]
  /\ IF ok
       THEN /\ LET mine == {i \in DOMAIN screenTimeCol :
                             /\ i > Len(InitialDocs)
                             /\ screenTimeCol[i].userId = submits[s].uid}
               IN screenTimeCol' =
                    IF submits[s].raced /\ mine # {}
                      THEN [screenTimeCol EXCEPT ![CHOOSE i \in mine : TRUE] =
                              ScreenTimeData(submits[s])]
                      ELSE AddDoc(screenTimeCol, ScreenTimeData(submits[s]))
            /\ pendingSnap' = listeners
            /\ screenTime' = SetState(screenTime, 0)
            /\ acks' = Append(acks, [uid |-> submits[s].uid,
                                     minutes |-> submits[s].minutes,
                                     week |-> submits[s].ts,
                                     raced |-> submits[s].raced,
                                     readRace |-> submits[s].readRace])
       ELSE UNCHANGED <<screenTimeCol, pendingSnap, screenTime, acks>>
  /\ lastSubmit' = IF ok THEN "ok" ELSE "writeFailed"
  /\ UNCHANGED <<authVars, usersCol, now, mounted, user, error, leaderboard,
                 leaderboardUnsubscribe, listeners, nListeners, authTasks,
                 snapTasks, reg, login, settings, lastNotified>>
  /\ UNCHANGED staleRead

\* The addDoc of line 266 settles.  Resolved: the document is in the
\* collection, every registered listener is owed a snapshot, setScreenTime(0).
\* Rejected: the catch of 268 logs.
SubmitWrite(s, ok) ==
  /\ submits[s].pc = "write"
  /\ submits' = [submits EXCEPT ![s] = IdleSubmit]
  /\ IF ok
       THEN /\ screenTimeCol' = AddDoc(screenTimeCol, ScreenTimeData(submits[s]))
            /\ pendingSnap' = listeners
            /\ screenTime' = SetState(screenTime, 0)
            /\ acks' = Append(acks, [uid |-> submits[s].uid,
                                     minutes |-> submits[s].minutes,
                                     week |-> submits[s].ts,
                                     raced |-> submits[s].raced,
                                     readRace |-> submits[s].readRace])
       ELSE UNCHANGED <<screenTimeCol, pendingSnap, screenTime, acks>>
  /\ lastSubmit' = IF ok THEN "ok" ELSE "writeFailed"
  /\ UNCHANGED <<authVars, usersCol, now, mounted, user, error, leaderboard,
                 leaderboardUnsubscribe, listeners, nListeners, authTasks,
                 snapTasks, reg, login, settings, lastNotified>>
  /\ UNCHANGED staleRead

\* onChange of the minutes input (398).
SetScreenTime(m) ==
  /\ mounted
  /\ user.present
  /\ m # screenTime
  /\ screenTime' = m
  /\ UNCHANGED <<authVars, storeVars, now, mounted, user, error, leaderboard,
                 boardVars, taskVars, lastNotified, acks, lastSubmit>>
  /\ UNCHANGED staleRead

\* The wall clock enters the next week.
Tick ==
  /\ now < MaxWeek
  /\ now' = now + 1
  /\ UNCHANGED <<authVars, storeVars, mounted, user, screenTime, error,
                 leaderboard, boardVars, taskVars, lastNotified, acks, lastSubmit>>
  /\ UNCHANGED staleRead

(* ----------------------------------------- handleUpdateSettings (274-297) *)
\* if (!user) return; then updateDoc(users/{uid}, {name: newName}) is awaited.
SettingsStart(n) ==
  /\ mounted
  /\ user.present
  /\ settings.pc = "idle"
  /\ Room
  /\ settings' = [pc |-> "updateDoc", uid |-> user.uid, newName |-> n]
  /\ UNCHANGED <<authVars, storeVars, now, mounted, user, screenTime, error,
                 leaderboard, boardVars, authTasks, snapTasks, reg, login,
                 submits, lastNotified, acks, lastSubmit>>
  /\ UNCHANGED staleRead

\* updateDoc(ref, {name}): only the name field of the document changes.
UpdateName(col, uid, n) == [col EXCEPT ![uid].name = n]

\* Variant: the rename is carried to the name stored on the user's records.
SettingsDocRenameRecords(ok) ==
  /\ settings.pc = "updateDoc"
  /\ IF ok
       THEN /\ settings.uid # None
            /\ usersCol[settings.uid].exists
            /\ usersCol' = UpdateName(usersCol, settings.uid, settings.newName)
            /\ screenTimeCol' = [i \in DOMAIN screenTimeCol |->
                 IF screenTimeCol[i].userId = settings.uid
                   THEN [screenTimeCol[i] EXCEPT !.name = settings.newName]
                   ELSE screenTimeCol[i]]
            /\ settings' = [settings EXCEPT !.pc = "updateProfile"]
            /\ \E served \in BOOLEAN :
                 staleRead' = ServedBefore(settings.uid, served)
            /\ UNCHANGED error
       ELSE /\ error' = SetState(error, "settings")
            /\ settings' = IdleSettings
            /\ UNCHANGED <<usersCol, screenTimeCol, staleRead>>
  /\ UNCHANGED <<authVars, now, mounted, user, screenTime,
                 leaderboard, boardVars, authTasks, snapTasks, reg, login,
                 submits, lastNotified, acks, lastSubmit>>

\* The updateDoc of 279 settles; it rejects when the document does not exist
\* (and doc() throws for a user object without uid).
SettingsDoc(ok) ==
  /\ settings.pc = "updateDoc"
  /\ IF ok
       THEN /\ settings.uid # None
            /\ usersCol[settings.uid].exists
            /\ usersCol' = UpdateName(usersCol, settings.uid, settings.newName)
            /\ settings' = [settings EXCEPT !.pc = "updateProfile"]
            /\ \E served \in BOOLEAN :
                 staleRead' = ServedBefore(settings.uid, served)
            /\ UNCHANGED error
       ELSE /\ error' = SetState(error, "settings")
            /\ settings' = IdleSettings
            /\ UNCHANGED <<usersCol, staleRead>>
  /\ UNCHANGED <<authVars, screenTimeCol, now, mounted, user, screenTime,
                 leaderboard, boardVars, authTasks, snapTasks, reg, login,
                 submits, lastNotified, acks, lastSubmit>>

\* The updateProfile(auth.currentUser!, ...) of 284 settles; with nobody
\* signed in the call throws.  On success setUser(prev => ({...prev, name})).
SettingsProfile(ok) ==
  /\ settings.pc = "updateProfile"
  /\ settings' = IdleSettings
  /\ IF ok
       THEN /\ currentUser # None
            /\ displayName' = [displayName EXCEPT ![currentUser] = settings.newName]
            /\ user' = SetState(user, [user EXCEPT !.present = TRUE,
                                                    !.name = settings.newName])
            /\ UNCHANGED error
       ELSE /\ error' = SetState(error, "settings")
            /\ UNCHANGED <<displayName, user>>
  /\ UNCHANGED <<accounts, currentUser, authQueue, storeVars, now, mounted,
                 screenTime, leaderboard, boardVars, authTasks, snapTasks, reg,
                 login, submits, lastNotified, acks, lastSubmit>>
  /\ UNCHANGED staleRead

(* --------------------------------- the leaderboard listener (124-179)     *)
\* query(collection(db, "screenTime"), orderBy("screenTime", "desc")): the
\* ids of every document of the collection, largest screenTime first (ties
\* in document-id order).
RECURSIVE SortDesc(_, _)
SortDesc(col, ids) ==
  IF ids = {} THEN <<>>
  ELSE LET best == CHOOSE i \in ids : \A j \in ids :
                     \/ col[i].screenTime > col[j].screenTime
                     \/ col[i].screenTime = col[j].screenTime /\ i <= j
       IN <<best>> \o SortDesc(col, ids \ {best})

\* Variant: the query has a where clause on the current week.
QueryDocsThisWeek(col) ==
  SortDesc(col, {i \in DOMAIN col : col[i].timestamp = now})

QueryDocs(col) == SortDesc(col, DOMAIN col)

\* Variant: the fallback chain has no stored name in it.
EntryOfNoStored(col, id, profileName) ==
  [id |-> id,
   name |-> Or(profileName, Anonymous),
   screenTime |-> col[id].screenTime,
   email |-> col[id].email]

\* The entry pushed for document id, given the profile name the lookup gave
\* ("" when there was no lookup, it failed, or the profile has no name):
\* lines 147-152, 156-161 and 165-170.
EntryOf(col, id, profileName) ==
  [id |-> id,
   name |-> Or(profileName, Or(col[id].name, Anonymous)),
   screenTime |-> col[id].screenTime,
   email |-> col[id].email]

\* The for loop of 134-172 from its current position up to the next await:
\* documents without userId are pushed at once (163-171).
RECURSIVE RunLoop(_, _, _)
RunLoop(col, snap, users) ==
  IF Len(users) = Len(snap) THEN users
  ELSE LET id == snap[Len(users) + 1] IN
         IF col[id].userId = ""
           THEN RunLoop(col, snap, Append(users, EntryOf(col, id, "")))
           ELSE users

RemoveAt(seq, t) == SubSeq(seq, 1, t - 1) \o SubSeq(seq, t + 1, Len(seq))

Pad(reads, n) == reads \o [k \in 1 .. (n - Len(reads)) |-> ""]

\* The store calls the listener's callback with a snapshot of the query.  The
\* callback runs up to its first await, or to setLeaderboard (174) when no
\* document needs a lookup.
SnapDeliver(l) ==
  /\ l \in pendingSnap
  /\ l \in listeners
  /\ pendingSnap' = pendingSnap \ {l}
  /\ LET snap == QueryDocs(screenTimeCol)
         users == RunLoop(screenTimeCol, snap, <<>>)
     IN IF Len(users) = Len(snap)
          THEN /\ leaderboard' = SetState(leaderboard, users)
               /\ UNCHANGED snapTasks
          ELSE /\ Room
               /\ snapTasks' = Append(snapTasks,
                    [snap |-> snap, users |-> users, reads |-> Pad(<<>>, Len(users))])
               /\ UNCHANGED leaderboard
  /\ UNCHANGED <<authVars, storeVars, now, mounted, user, screenTime, error,
                 leaderboardUnsubscribe, listeners, nListeners, authTasks, reg,
                 login, submits, settings, lastNotified, acks, lastSubmit>>
  /\ UNCHANGED staleRead

\* The getDoc of line 143 settles for the entry the callback t is at; the
\* entry is pushed either way (147 or 156) and the loop goes on to the next
\* await or to setLeaderboard(users).
SnapLookup(t, ok) ==
  /\ t \in DOMAIN snapTasks
  /\ LET task == snapTasks[t]
         id == task.snap[Len(task.users) + 1]
         uid == screenTimeCol[id].userId
         read == IF ok THEN usersCol[uid].name ELSE ""
         users == RunLoop(screenTimeCol, task.snap,
                          Append(task.users, EntryOf(screenTimeCol, id, read)))
     IN IF Len(users) = Len(task.snap)
          THEN /\ leaderboard' = SetState(leaderboard, users)
               /\ snapTasks' = RemoveAt(snapTasks, t)
          ELSE /\ snapTasks' = [snapTasks EXCEPT ![t] =
                    [task EXCEPT !.users = users,
                                 !.reads = Pad(Append(task.reads, read), Len(users))]]
               /\ UNCHANGED leaderboard
  /\ UNCHANGED <<authVars, storeVars, now, mounted, user, screenTime, error,
                 boardVars, authTasks, reg, login, submits, settings,
                 lastNotified, acks, lastSubmit>>
  /\ UNCHANGED staleRead

(* --------------------------------------------------------- specification *)
\* Sign-in and sign-out: the part every session goes through.
SessionNext ==
  \/ AuthNotify
  \/ \E u \in Users, ok \in BOOLEAN : AuthHandlerRead(u, ok)
  \/ SignOut
  \/ \E u \in Users : LoginStart(u)
  \/ \E ok \in BOOLEAN : LoginDone(ok)

RegisterNext ==
  \/ \E u \in Users, n \in NameSet : RegisterStart(u, n)
  \/ \E ok \in BOOLEAN : RegisterCreate(ok)
  \/ \E ok \in BOOLEAN : RegisterProfile(ok)
  \/ \E ok \in BOOLEAN : RegisterSetDoc(ok)

SubmitNext ==
  \/ SubmitNoUser
  \/ SubmitStart
  \/ \E s \in 1 .. MaxInFlight, ok \in BOOLEAN : SubmitRead(s, ok)
  \/ \E s \in 1 .. MaxInFlight, ok \in BOOLEAN : SubmitWrite(s, ok)
  \/ \E m \in Minutes : SetScreenTime(m)

SettingsNext ==
  \/ \E n \in NameSet : SettingsStart(n)
  \/ \E ok \in BOOLEAN : SettingsDoc(ok)
  \/ \E ok \in BOOLEAN : SettingsProfile(ok)

BoardNext ==
  \/ \E l \in 1 .. MaxListeners : SnapDeliver(l)
  \/ \E t \in 1 .. MaxInFlight, ok \in BOOLEAN : SnapLookup(t, ok)

\* The whole component.
Next ==
  \/ SessionNext
  \/ Unmount
  \/ RegisterNext
  \/ SubmitNext
  \/ Tick
  \/ SettingsNext
  \/ BoardNext

Spec == Init /\ [][Next]_vars

\* The component restricted to some of its handlers: sessions that submit,
\* sessions that watch the leaderboard, sessions that register, sessions that
\* rename.  Every behaviour of one of these is a behaviour of Spec.
SpecSubmit == Init /\ [][SessionNext \/ Unmount \/ SubmitNext \/ Tick]_vars

SpecBoard == Init /\ [][SessionNext \/ SubmitNext \/ BoardNext]_vars

SpecAuth == Init /\ [][SessionNext \/ Unmount \/ RegisterNext]_vars

SpecSettings == Init /\ [][SessionNext \/ Unmount \/ SettingsNext]_vars

(* ------------------------------------------------ submissions: C1, C2    *)
NInitial == Len(InitialDocs)

RecordsOf(u) == {i \in DOMAIN screenTimeCol : screenTimeCol[i].userId = u}

WeekRecords(u, w) == {i \in RecordsOf(u) : screenTimeCol[i].timestamp = w}

\* Submissions k and k+1 are two successful submissions of one user in one
\* week, neither of which overlapped another submission of that user.
SeqPair(k) ==
  /\ k \in 1 .. (Len(acks) - 1)
  /\ acks[k].uid = acks[k + 1].uid
  /\ acks[k].week = acks[k + 1].week
  /\ ~acks[k].raced
  /\ ~acks[k + 1].raced

C8_FailureSilent ==
  [][\A s \in 1 .. MaxInFlight :
       (SubmitRead(s, FALSE) \/ SubmitWrite(s, FALSE)) =>
         /\ screenTimeCol' = screenTimeCol
         /\ acks' = acks
         /\ error' = error
         /\ screenTime' = screenTime
         /\ submits'[s].pc = "idle"]_vars

C8_Witness == lastSubmit = "writeFailed" /\ screenTime # 0 /\ Busy = {}

\* C9 as claimed: a document is added only while somebody is signed in, and
\* its userId is the signed-in user's.
C9_Original ==
  [][Len(screenTimeCol') > Len(screenTimeCol) =>
       /\ currentUser # None
       /\ screenTimeCol'[Len(screenTimeCol')].userId = currentUser]_vars

\* Submissions j and k of one user both succeeded, and each of them had
\* finished its read while another call of that user had read and not yet
\* written.
RacedPair(j, k) ==
  /\ j \in DOMAIN acks
  /\ k \in DOMAIN acks
  /\ j < k
  /\ acks[j].uid = acks[k].uid
  /\ acks[j].readRace
  /\ acks[k].readRace

BoardIds == {leaderboard[k].id : k \in DOMAIN leaderboard}

\* C3 as claimed: every entry of the leaderboard state is built from a
\* document of the current week.
C3_Original ==
  \A k \in DOMAIN leaderboard :
    screenTimeCol[leaderboard[k].id].timestamp = now

\* C3 as amended: the query has no week filter: a leaderboard set from a
\* snapshot has one entry for every document the collection held when the
\* snapshot was taken, those of earlier weeks included.
C3_Amended ==
  leaderboard # <<>> =>
    \E n \in NInitial .. Len(screenTimeCol) :
      /\ Len(leaderboard) = n
      /\ BoardIds = 1 .. n

C3_Witness ==
  /\ \E k \in DOMAIN leaderboard : screenTimeCol[leaderboard[k].id].timestamp < now
  /\ \E k \in DOMAIN leaderboard : screenTimeCol[leaderboard[k].id].timestamp = now

\* What the callback is to set for snapshot snap when reads[k] is the name
\* the profile lookup of the k-th document gave ("" for none).
ExpectedBoard(snap, reads) ==
  [k \in 1 .. Len(snap) |->
     [id |-> snap[k],
      name |-> IF reads[k] # "" THEN reads[k]
               ELSE IF screenTimeCol[snap[k]].name # ""
                      THEN screenTimeCol[snap[k]].name
                      ELSE "Anonymous",
      screenTime |-> screenTimeCol[snap[k]].screenTime,
      email |-> screenTimeCol[snap[k]].email]]

\* C4: when the snapshot callback finishes, the leaderboard it sets has one
\* entry per document of the snapshot, in the snapshot's order, which is
\* non-increasing in screenTime; entries whose lookup failed or whose record
\* has no userId are kept; each name is the profile name the lookup gave,
\* else the record's stored name, else "Anonymous".
C4_SnapshotBoard ==
  [][\A t \in DOMAIN snapTasks : \A ok \in BOOLEAN :
       (SnapLookup(t, ok) /\ Len(snapTasks') < Len(snapTasks)) =>
         LET task == snapTasks[t]
             uid == screenTimeCol[task.snap[Len(task.users) + 1]].userId
             read == IF ok THEN usersCol[uid].name ELSE ""
         IN /\ leaderboard' =
                 ExpectedBoard(task.snap,
                               Pad(Append(task.reads, read), Len(task.snap)))
            /\ {task.snap[k] : k \in 1 .. Len(task.snap)}
                 \subseteq DOMAIN screenTimeCol
            /\ \A j, k \in 1 .. Len(task.snap) : j # k => task.snap[j] # task.snap[k]
            /\ \A k \in 1 .. (Len(leaderboard') - 1) :
                 leaderboard'[k].screenTime >= leaderboard'[k + 1].screenTime]_vars

C4_Witness ==
  /\ Len(leaderboard) >= 3
  /\ \E k \in DOMAIN leaderboard :
       screenTimeCol[leaderboard[k].id].userId = "" /\ leaderboard[k].name = "Anonymous"
  /\ \E k \in DOMAIN leaderboard :
       /\ screenTimeCol[leaderboard[k].id].userId = "u1"
       /\ leaderboard[k].name = screenTimeCol[leaderboard[k].id].name
       /\ leaderboard[k].name # usersCol["u1"].name
  /\ \E k \in DOMAIN leaderboard :
       /\ screenTimeCol[leaderboard[k].id].userId = "u1"
       /\ leaderboard[k].name = usersCol["u1"].name

(* -------------------------------------------- subscriptions, errors      *)
\* C5 as claimed: at most one leaderboard listener of this component is
\* registered; none is once the last notification handled was a sign-out,
\* and none is once the effect's cleanup has run.
C5_Original ==
  /\ Cardinality(listeners) <= 1
  /\ lastNotified = None => listeners = {}
  /\ ~mounted => listeners = {}

\* C7 as claimed: once the register and login handlers and the pending auth
\* notifications have finished, an error they stored is on screen: the form
\* that renders it is the view shown, that is, the user state is null.
C7_Original ==
  (mounted /\ error # "" /\ AuthQuiescent) => ~user.present

(* ------------------------------------------------------- settings: C6    *)
\* C6: no step of handleUpdateSettings, succeeding or failing, changes a
\* screenTime document or the users document of anybody but the caller, and
\* of the caller's document only the name changes.
C6_SettingsFrame ==
  [][settings' # settings =>
       /\ screenTimeCol' = screenTimeCol
       /\ \A u \in Users :
            \/ usersCol'[u] = usersCol[u]
            \/ /\ u = settings.uid
               /\ usersCol'[u] = [usersCol[u] EXCEPT !.name = settings.newName]]_vars

C6_Witness ==
  /\ settings.pc = "idle"
  /\ usersCol["u1"].name = "b"
  /\ displayName["u1"] = "b"
  /\ screenTimeCol = InitialDocs

(* ------------------------------------------------ snapshot order: C11    *)
\* C11 as claimed (its first half): snapshots are applied in delivery
\* order.  Documents are only ever added, so a later snapshot has at least
\* as many documents as an earlier one: a callback never replaces the
\* leaderboard by the entries of a snapshot with fewer documents than the
\* one it shows.
C11_Original ==
  [][\A t \in DOMAIN snapTasks : \A ok \in BOOLEAN :
       (SnapLookup(t, ok) /\ Len(snapTasks') < Len(snapTasks)) =>
         Len(leaderboard') >= Len(leaderboard)]_vars

(* ------------------------------------------------- registration: C12     *)
\* C12 as claimed: whenever no handleRegister call is running, an account
\* exists for an email if and only if a users/{uid} document with that
\* email exists.
C12_Original ==
  reg.pc = "idle" =>
    \A u \in Users :
      u \in accounts <=> (usersCol[u].exists /\ usersCol[u].email = EmailOf(u))

(* ------------------------------------------------ settings names: C13    *)
\* C13 as claimed: when handleUpdateSettings finishes, by success or by
\* failure of either write, the caller's users/{uid} name, auth display name
\* and local user.name agree.
C13_Original ==
  [][(settings.pc # "idle" /\ settings'.pc = "idle" /\ settings.uid # None) =>
       /\ usersCol'[settings.uid].name = displayName'[settings.uid]
       /\ (mounted /\ user'.present) => user'.name = usersCol'[settings.uid].name]_vars

(* --------------------------------------------- signed-out board: C14     *)
\* C14 as claimed: while the session is signed out (nobody is signed in,
\* the last notification handled was the sign-out, none is pending and the
\* user state is null) the leaderboard state is the empty list.
C14_Original ==
  (/\ mounted
   /\ currentUser = None
   /\ lastNotified = None
   /\ authQueue = <<>>
   /\ ~user.present) => leaderboard = <<>>

(* --------------------------------------------- registered name: C15      *)
\* The registration of u, all three steps of it, has succeeded and both
\* handleRegister and the sign-in handlers have finished, with u's session
\* still the one shown.  (Only handleRegister creates the users/{uid}
\* document of an account that did not exist before, and it holds the name
\* entered in the form.)
RegisteredAndSettled(u) ==
  /\ u \notin InitialAccounts
  /\ usersCol[u].exists
  /\ mounted
  /\ reg.pc = "idle"
  /\ authQueue = <<>>
  /\ \A v \in Users : authTasks[v] = 0
  /\ user.present
  /\ user.uid = u

\* C15: after a registration whose three steps succeeded, once
\* handleRegister and the sign-in handler have both finished, in either
\* order and whether or not the handler's read of users/{uid} was served
\* before the profile write, user.name is the name entered in the form.
C15_RegisteredName ==
  \A u \in Users : RegisteredAndSettled(u) => user.name = usersCol[u].name

C15_Witness ==
  \E u \in Users :
    /\ RegisteredAndSettled(u)
    /\ currentUser = u
    /\ lastNotified = u
    /\ user.name = "b"
    /\ displayName[u] = "b"

====
